---- MODULE Spec2Model ----
(***************************************************************************)
(* A model of rust_asar: the Asar handle (src/src/asar.rs), the Content    *)
(* tree (src/src/content.rs) and the filesystem and JSON library they run  *)
(* on.  Strings are sequences of byte codes, files are sequences of bytes, *)
(* paths are sequences of components, serde_json Values are records.       *)
(***************************************************************************)
EXTENDS Integers, Sequences, FiniteSets, TLC

VARIABLES fs, dirOrder, asar, ret

vars == <<fs, dirOrder, asar, ret>>

(***************************************************************************)
(* Bounds of the model.                                                    *)
(***************************************************************************)
\* longest source file, in bytes
MaxFileLen == 2
\* most entries (files and folders) of one directory tree or header
MaxEntries == 3
\* deepest nesting of a directory tree or header
MaxDepth == 2

(***************************************************************************)
(* Bytes and strings.                                                      *)
(***************************************************************************)
Ch == [lbrace |-> 123, rbrace |-> 125, quote |-> 34, colon |-> 58,
       comma |-> 44, minus |-> 45, plus |-> 43, dot |-> 46, slash |-> 47,
       zero |-> 48, nine |-> 57, backslash |-> 92]

\* "files", "size", "offset", "null"
sFiles == <<102, 105, 108, 101, 115>>
sSize == <<115, 105, 122, 101>>
sOffset == <<111, 102, 102, 115, 101, 116>>
sNull == <<110, 117, 108, 108>>

Min(S) == CHOOSE x \in S : \A y \in S : x <= y

IsDigit(c) == c >= Ch.zero /\ c <= Ch.nine

Some(x) == [some |-> TRUE, v |-> x]
None == [some |-> FALSE]

\* let x = v; body: v is computed once and body sees its value
bind(v, body(_)) == CHOOSE y \in {body(x) : x \in {v}} : TRUE

\* String's Ord: byte-wise lexicographic, the order of a BTreeMap<String, _>
RECURSIVE StrLess(_, _)
StrLess(a, b) ==
    IF a = <<>> THEN b # <<>>
    ELSE IF b = <<>> THEN FALSE
    ELSE IF a[1] # b[1] THEN a[1] < b[1]
    ELSE StrLess(Tail(a), Tail(b))

RECURSIVE SortedSeq(_)
SortedSeq(S) ==
    IF S = {} THEN <<>>
    ELSE LET m == CHOOSE x \in S : \A y \in S \ {x} : StrLess(x, y)
         IN <<m>> \o SortedSeq(S \ {m})

(***************************************************************************)
(* u64 values that come from a header are kept as canonical decimal digit  *)
(* sequences (no leading zero), since they may exceed TLC's        *)
(* integers; nat_of converts one that is used as an address or a length.   *)
(***************************************************************************)
U64_MAX == <<1, 8, 4, 4, 6, 7, 4, 4, 0, 7, 3, 7, 0, 9, 5, 5, 1, 6, 1, 5>>

RECURSIVE digits_of(_)
digits_of(n) == IF n < 10 THEN <<n>> ELSE digits_of(n \div 10) \o <<n % 10>>

RECURSIVE nat_of(_)
nat_of(d) == IF d = <<>> THEN 0 ELSE 10 * nat_of(SubSeq(d, 1, Len(d) - 1)) + d[Len(d)]

RECURSIVE strip_zeros(_)
strip_zeros(d) == IF Len(d) > 1 /\ d[1] = 0 THEN strip_zeros(Tail(d)) ELSE d

\* a > b on canonical digit sequences
RECURSIVE LexGt(_, _)
LexGt(a, b) ==
    IF a = <<>> THEN FALSE
    ELSE IF a[1] # b[1] THEN a[1] > b[1]
    ELSE LexGt(Tail(a), Tail(b))

DecGt(a, b) == Len(a) > Len(b) \/ (Len(a) = Len(b) /\ LexGt(a, b))

digit_chars(d) == [i \in 1..Len(d) |-> Ch.zero + d[i]]
char_digits(s) == [i \in 1..Len(s) |-> s[i] - Ch.zero]

\* u64::to_string
to_string(n) == digit_chars(digits_of(n))

\* str::parse::<u64>: an optional '+', then one or more digits, within u64
parse_u64(s) ==
    LET body == IF s # <<>> /\ s[1] = Ch.plus THEN Tail(s) ELSE s
    IN IF body = <<>> \/ \E i \in 1..Len(body) : ~IsDigit(body[i]) THEN None
       ELSE LET d == strip_zeros(char_digits(body))
            IN IF DecGt(d, U64_MAX) THEN None ELSE Some(d)

(***************************************************************************)
(* serde_json::Value.  A Map<String, Value> is a function from keys to     *)
(* Values, iterated in key order.                                          *)
(***************************************************************************)
EmptyMap == [k \in {} |-> 0]

JNull == [type |-> "null"]
JString(s) == [type |-> "string", s |-> s]
JNumber(neg, int, frac) == [type |-> "number", neg |-> neg, int |-> int, frac |-> frac]
JObject(m) == [type |-> "object", map |-> m]

\* json!(n) of a u64
JU64(n) == JNumber(FALSE, digits_of(n), <<>>)

IsObject(v) == v.type = "object"

\* Map::insert
insert(m, k, v) == (k :> v) @@ m

\* Map::get
get(m, k) == IF k \in DOMAIN m THEN Some(m[k]) ELSE None

\* Map::iter: the keys in the order they are visited
iter(m) == SortedSeq(DOMAIN m)

\* Number::as_u64
as_u64(n) ==
    IF ~n.neg /\ n.frac = <<>> /\ ~DecGt(n.int, U64_MAX) THEN Some(n.int) ELSE None

\* serde_json::to_vec: compact text, no whitespace
RECURSIVE to_vec(_), members_to_vec(_, _)
to_vec(v) ==
    CASE v.type = "object" ->
            <<Ch.lbrace>> \o members_to_vec(v.map, iter(v.map)) \o <<Ch.rbrace>>
      [] v.type = "string" -> <<Ch.quote>> \o v.s \o <<Ch.quote>>
      [] v.type = "number" ->
            (IF v.neg THEN <<Ch.minus>> ELSE <<>>) \o digit_chars(v.int)
            \o (IF v.frac = <<>> THEN <<>> ELSE <<Ch.dot>> \o digit_chars(v.frac))
      [] OTHER -> sNull

members_to_vec(m, keys) ==
    IF keys = <<>> THEN <<>>
    ELSE <<Ch.quote>> \o Head(keys) \o <<Ch.quote, Ch.colon>> \o to_vec(m[Head(keys)])
         \o (IF Len(keys) > 1 THEN <<Ch.comma>> ELSE <<>>)
         \o members_to_vec(m, Tail(keys))

\* serde_json::from_slice on compact text: objects, strings without escapes,
\* numbers and null; anything else is a syntax error
PFail == [ok |-> FALSE, v |-> JNull, i |-> 0]
POk(v, i) == [ok |-> TRUE, v |-> v, i |-> i]

\* the first index from i on that holds no digit
digits_end(s, i) ==
    LET stop == {j \in i..Len(s) : ~IsDigit(s[j])}
    IN IF stop = {} THEN Len(s) + 1 ELSE Min(stop)

parse_string(s, i) ==
    IF i > Len(s) \/ s[i] # Ch.quote THEN PFail
    ELSE LET close == {j \in (i + 1)..Len(s) : s[j] = Ch.quote}
         IN IF close = {} THEN PFail
            ELSE LET j == Min(close)
                     body == SubSeq(s, i + 1, j - 1)
                 IN IF \E k \in 1..Len(body) : body[k] = Ch.backslash THEN PFail
                    ELSE POk(body, j + 1)

parse_number(s, i) ==
    LET neg == s[i] = Ch.minus
        b == IF neg THEN i + 1 ELSE i
        e == digits_end(s, b)
        int == SubSeq(s, b, e - 1)
    IN IF e = b \/ (Len(int) > 1 /\ int[1] = Ch.zero) THEN PFail
       ELSE IF e <= Len(s) /\ s[e] = Ch.dot
            THEN LET fe == digits_end(s, e + 1)
                 IN IF fe = e + 1 THEN PFail
                    ELSE POk(JNumber(neg, char_digits(int),
                                     char_digits(SubSeq(s, e + 1, fe - 1))), fe)
            ELSE POk(JNumber(neg, char_digits(int), <<>>), e)

RECURSIVE parse_value(_, _), parse_members(_, _, _)
parse_value(s, i) ==
    IF i > Len(s) THEN PFail
    ELSE IF s[i] = Ch.lbrace
         THEN IF i + 1 <= Len(s) /\ s[i + 1] = Ch.rbrace
              THEN POk(JObject(EmptyMap), i + 2)
              ELSE parse_members(s, i + 1, EmptyMap)
    ELSE IF s[i] = Ch.quote
         THEN LET r == parse_string(s, i)
              IN IF r.ok THEN POk(JString(r.v), r.i) ELSE PFail
    ELSE IF s[i] = Ch.minus \/ IsDigit(s[i]) THEN parse_number(s, i)
    ELSE IF i + 3 <= Len(s) /\ SubSeq(s, i, i + 3) = sNull THEN POk(JNull, i + 4)
    ELSE PFail

parse_members(s, i, acc) ==
    bind(parse_string(s, i), LAMBDA k :
       IF ~k.ok \/ k.i > Len(s) \/ s[k.i] # Ch.colon THEN PFail
       ELSE bind(parse_value(s, k.i + 1), LAMBDA r :
               IF ~r.ok \/ r.i > Len(s) THEN PFail
               ELSE IF s[r.i] = Ch.comma
                    THEN bind(insert(acc, k.v, r.v), LAMBDA m : parse_members(s, r.i + 1, m))
               ELSE IF s[r.i] = Ch.rbrace
                    THEN POk(JObject(insert(acc, k.v, r.v)), r.i + 1)
               ELSE PFail))

from_slice(s) ==
    bind(s, LAMBDA text : bind(parse_value(text, 1), LAMBDA r :
       IF r.ok /\ r.i = Len(text) + 1 THEN [ok |-> TRUE, v |-> r.v]
       ELSE [ok |-> FALSE, err |-> "SerdeJsonError"]))

(***************************************************************************)
(* std::path.  A path is the sequence of its components; RootDir, CurDir   *)
(* and ParentDir are the components "/", "." and "..".                     *)
(***************************************************************************)
RootDir == <<Ch.slash>>
CurDir == <<Ch.dot>>
ParentDir == <<Ch.dot, Ch.dot>>

\* the pieces of a string between its '/' separators, empty pieces dropped
RECURSIVE split(_)
split(s) ==
    LET cut == {j \in 1..Len(s) : s[j] = Ch.slash}
    IN IF s = <<>> THEN <<>>
       ELSE IF cut = {} THEN <<s>>
       ELSE LET j == Min(cut)
            IN (IF j = 1 THEN <<>> ELSE <<SubSeq(s, 1, j - 1)>>)
               \o split(SubSeq(s, j + 1, Len(s)))

\* Path::new(s).components(): a "." is kept only as the first component
Path_new(s) ==
    LET parts == split(s)
        lead == IF s # <<>> /\ s[1] = Ch.slash THEN <<RootDir>>
                ELSE IF parts # <<>> /\ parts[1] = CurDir THEN <<CurDir>>
                ELSE <<>>
    IN lead \o SelectSeq(parts, LAMBDA c : c # CurDir)

is_absolute(p) == p # <<>> /\ p[1] = RootDir

\* Path::join: an absolute argument replaces the path
join(p, q) == IF is_absolute(q) THEN q ELSE p \o q

\* Path::starts_with: whole components only
starts_with(p, base) == Len(base) <= Len(p) /\ SubSeq(p, 1, Len(base)) = base

\* Path::file_name: the last component when it is a normal one
file_name(p) ==
    IF p = <<>> \/ p[Len(p)] \in {RootDir, CurDir, ParentDir} THEN None
    ELSE Some(p[Len(p)])

\* Path::file_stem: the file name up to its last '.', a leading '.' apart
file_stem(p) ==
    LET n == file_name(p)
    IN IF ~n.some THEN None
       ELSE LET dots == {j \in 2..Len(n.v) : n.v[j] = Ch.dot}
            IN IF dots = {} THEN n
               ELSE Some(SubSeq(n.v, 1, (CHOOSE j \in dots : \A k \in dots : k <= j) - 1))

parent(p) == SubSeq(p, 1, Len(p) - 1)

(***************************************************************************)
(* Results and errors (src/src/asar_error.rs).                             *)
(***************************************************************************)
Ok(v) == [ok |-> TRUE, v |-> v]
\* entity: the name the message carries, if it carries one
Err(kind, msg, entity) == [ok |-> FALSE, err |-> kind, msg |-> msg, entity |-> entity]
IoError(msg) == Err("IoError", msg, None)

\* a panic (Result::unwrap on an Err) where an Option is returned
Panic == [some |-> FALSE, panic |-> TRUE]

(***************************************************************************)
(* enum Content (src/src/content.rs).                                      *)
(***************************************************************************)
MAX_SAFE_INTEGER == <<9, 0, 0, 7, 1, 9, 9, 2, 5, 4, 7, 4, 0, 9, 9, 1>>

File(name, offset, size) == [type |-> "File", name |-> name, offset |-> offset, size |-> size]
Folder(name, dir) == [type |-> "Folder", name |-> name, dir |-> dir]
Home(dir) == [type |-> "Home", dir |-> dir]
List(list) == [type |-> "List", list |-> list]

has_object(item, k) == k \in DOMAIN item /\ item[k].type = "object"

\* lookahead refusing a size that equals the ceiling
lookahead_ceiling_exclusive(name, item) ==
    IF name = <<>>
    THEN IF has_object(item, sFiles) THEN Ok(Home(item[sFiles].map))
         ELSE Err("ParseHeaderError", "'files' not found in Home directory", None)
    ELSE IF /\ sOffset \in DOMAIN item /\ item[sOffset].type = "string"
            /\ sSize \in DOMAIN item /\ item[sSize].type = "number"
         THEN LET size == as_u64(item[sSize])
                  offset == parse_u64(item[sOffset].s)
              IN IF ~size.some
                 THEN Err("ParseHeaderError", "size nan for file", Some(name))
                 ELSE IF ~DecGt(MAX_SAFE_INTEGER, size.v)
                 THEN Err("ParseHeaderError", "size is greater than MAX_SAFE_INTEGER",
                          Some(name))
                 ELSE IF ~offset.some
                 THEN Err("ParseHeaderError", "ParseIntError", None)
                 ELSE Ok(File(Path_new(name), offset.v, size.v))
    ELSE IF has_object(item, sFiles) THEN Ok(Folder(Path_new(name), item[sFiles].map))
    ELSE Err("ParseHeaderError", "Error parsing header for entity", Some(name))

\* lookahead without the ceiling on a file's size
lookahead_no_ceiling(name, item) ==
    IF name = <<>>
    THEN IF has_object(item, sFiles) THEN Ok(Home(item[sFiles].map))
         ELSE Err("ParseHeaderError", "'files' not found in Home directory", None)
    ELSE IF /\ sOffset \in DOMAIN item /\ item[sOffset].type = "string"
            /\ sSize \in DOMAIN item /\ item[sSize].type = "number"
         THEN LET size == as_u64(item[sSize])
                  offset == parse_u64(item[sOffset].s)
              IN IF ~size.some
                 THEN Err("ParseHeaderError", "size nan for file", Some(name))
                 ELSE IF ~offset.some
                 THEN Err("ParseHeaderError", "ParseIntError", None)
                 ELSE Ok(File(Path_new(name), offset.v, size.v))
    ELSE IF has_object(item, sFiles) THEN Ok(Folder(Path_new(name), item[sFiles].map))
    ELSE Err("ParseHeaderError", "Error parsing header for entity", Some(name))

lookahead(name, item) ==
    IF name = <<>>
    THEN IF has_object(item, sFiles) THEN Ok(Home(item[sFiles].map))
         ELSE Err("ParseHeaderError", "'files' not found in Home directory", None)
    ELSE IF /\ sOffset \in DOMAIN item /\ item[sOffset].type = "string"
            /\ sSize \in DOMAIN item /\ item[sSize].type = "number"
         THEN LET size == as_u64(item[sSize])
                  offset == parse_u64(item[sOffset].s)
              IN IF ~size.some
                 THEN Err("ParseHeaderError", "size nan for file", Some(name))
                 ELSE IF DecGt(size.v, MAX_SAFE_INTEGER)
                 THEN Err("ParseHeaderError", "size is greater than MAX_SAFE_INTEGER",
                          Some(name))
                 ELSE IF ~offset.some
                 THEN Err("ParseHeaderError", "ParseIntError", None)
                 ELSE Ok(File(Path_new(name), offset.v, size.v))
    ELSE IF has_object(item, sFiles) THEN Ok(Folder(Path_new(name), item[sFiles].map))
    ELSE Err("ParseHeaderError", "Error parsing header for entity", Some(name))

\* new_json answering a value that is no object with ParseHeaderError
new_json_parse_error(header) ==
    IF IsObject(header) THEN lookahead(<<>>, header.map)
    ELSE Err("ParseHeaderError", "Expected Map<String, Value> for new content type", None)

\* Content::new_json
new_json(header) ==
    IF IsObject(header) THEN lookahead(<<>>, header.map)
    ELSE Err("UnknownContentType", "Expected Map<String, Value> for new content type", None)

\* Content::new_list
new_list(list) == List(list)

\* paths_to_vec_aux; children_to_vec is its loop over a folder's children
RECURSIVE paths_to_vec_aux(_, _, _), children_to_vec(_, _, _, _)
\* paths_to_vec_aux pushing a folder's path after its children's
paths_to_vec_aux_post_order(content, path, vec) ==
    CASE content.type = "Folder" ->
            LET r == children_to_vec(content.dir, iter(content.dir),
                                     join(path, content.name), vec)
            IN IF ~r.ok THEN r ELSE Ok(Append(r.v, join(path, content.name)))
      [] content.type = "File" -> Ok(Append(vec, join(path, content.name)))
      [] OTHER -> Err("UnknownContentType", "Unexepcted Content Type", None)

paths_to_vec_aux(content, path, vec) ==
    CASE content.type = "Folder" ->
            children_to_vec(content.dir, iter(content.dir), join(path, content.name),
                            Append(vec, join(path, content.name)))
      [] content.type = "File" -> Ok(Append(vec, join(path, content.name)))
      [] OTHER -> Err("UnknownContentType", "Unexepcted Content Type", None)

children_to_vec(dir, keys, path, vec) ==
    IF keys = <<>> THEN Ok(vec)
    ELSE IF ~IsObject(dir[Head(keys)])
    THEN Err("UnknownContentType", "Uknown content type, expected Object", None)
    ELSE bind(lookahead(Head(keys), dir[Head(keys)].map), LAMBDA next_content :
            IF ~next_content.ok THEN next_content
            ELSE bind(paths_to_vec_aux(next_content.v, path, vec), LAMBDA r :
                    IF ~r.ok THEN r ELSE children_to_vec(dir, Tail(keys), path, r.v)))

\* the loop of Content::paths_to_vec over Home's children: a child that is
\* no object is passed over
RECURSIVE home_to_vec(_, _, _)
home_to_vec(dir, keys, vec) ==
    IF keys = <<>> THEN Ok(vec)
    ELSE IF ~IsObject(dir[Head(keys)]) THEN home_to_vec(dir, Tail(keys), vec)
    ELSE bind(lookahead(Head(keys), dir[Head(keys)].map), LAMBDA next_content :
            IF ~next_content.ok THEN next_content
            ELSE bind(paths_to_vec_aux(next_content.v, <<>>, vec), LAMBDA r :
                    IF ~r.ok THEN r ELSE home_to_vec(dir, Tail(keys), r.v)))

paths_to_vec(content) ==
    IF content.type = "Home" THEN home_to_vec(content.dir, iter(content.dir), <<>>)
    ELSE Err("UnknownContentType", "Unexpected Content Type: expected Content::Home", None)

\* Content::find.  find_children is the loop of find_aux over the children
\* of Home or of a Folder: it returns through the first child whose path
\* is a prefix of the one looked for and whose value is an object.
RECURSIVE find_aux(_, _, _), find_children(_, _, _, _)
find_aux(content, path, curr_path) ==
    CASE content.type = "Home" ->
            IF ~file_stem(path).some THEN Some(content)
            ELSE find_children(content.dir, iter(content.dir), path, curr_path)
      [] content.type = "File" ->
            IF path = join(curr_path, content.name) THEN Some(content) ELSE None
      [] content.type = "Folder" ->
            IF join(curr_path, content.name) = path THEN Some(content)
            ELSE find_children(content.dir, iter(content.dir), path,
                               join(curr_path, content.name))
      [] OTHER -> None

find_children(dir, keys, path, curr_path) ==
    IF keys = <<>> THEN None
    ELSE IF /\ starts_with(path, join(curr_path, Path_new(Head(keys))))
            /\ IsObject(dir[Head(keys)])
    THEN LET next == lookahead(Head(keys), dir[Head(keys)].map)
         IN IF ~next.ok THEN Panic ELSE find_aux(next.v, path, curr_path)
    ELSE find_children(dir, Tail(keys), path, curr_path)

find(content, path) == find_aux(content, path, <<>>)

(***************************************************************************)
(* The filesystem: a function from the paths that exist to their nodes.    *)
(* The empty path is the working directory.                                *)
(***************************************************************************)
DirNode == [kind |-> "dir"]
FileNode(data) == [kind |-> "file", data |-> data]

exists(f, p) == p \in DOMAIN f
is_dir(f, p) == p \in DOMAIN f /\ f[p].kind = "dir"
is_file(f, p) == p \in DOMAIN f /\ f[p].kind = "file"

\* an operation's outcome together with the filesystem it leaves
Out(res, f) == [res |-> res, fs |-> f]

\* fs::read_dir: the children's names, in the order the system lists them
read_dir(f, p, order) == SelectSeq(order, LAMBDA n : (p \o <<n>>) \in DOMAIN f)

\* the node a path leads to: ".." steps to the parent of a directory that
\* exists, an absolute path starts from the root; None when a component on
\* the way is no directory
RECURSIVE walk(_, _, _)
walk(f, cur, rest) ==
    IF rest = <<>> THEN Some(cur)
    ELSE IF ~is_dir(f, cur) THEN None
    ELSE LET c == Head(rest)
         IN walk(f,
                 CASE c = RootDir -> <<RootDir>>
                   [] c = CurDir -> cur
                   [] c = ParentDir ->
                        IF cur = <<RootDir>> THEN cur
                        ELSE IF cur = <<>> \/ cur[Len(cur)] = ParentDir THEN cur \o <<c>>
                        ELSE parent(cur)
                   [] OTHER -> cur \o <<c>>,
                 Tail(rest))

locate(f, p) == walk(f, <<>>, p)

\* DirBuilder::new().recursive(true).create(p)
RECURSIVE create_dir_all(_, _)
create_dir_all(f, p) ==
    LET at == locate(f, p)
    IN IF at.some /\ is_dir(f, at.v) THEN Out(Ok(<<>>), f)
       ELSE IF at.some /\ exists(f, at.v) THEN Out(IoError("AlreadyExists"), f)
       ELSE IF p = <<>> THEN Out(IoError("NotFound"), f)
       ELSE LET up == create_dir_all(f, parent(p))
                now == locate(up.fs, p)
            IN IF ~up.res.ok THEN up
               ELSE IF ~now.some THEN Out(IoError("NotFound"), up.fs)
               ELSE IF is_dir(up.fs, now.v) THEN Out(Ok(<<>>), up.fs)
               ELSE IF exists(up.fs, now.v) THEN Out(IoError("AlreadyExists"), up.fs)
               ELSE Out(Ok(<<>>), insert(up.fs, now.v, DirNode))

\* File::create: a new empty file, or an existing one truncated; the handle
\* it returns is the node the path leads to
File_create(f, p) ==
    LET at == locate(f, p)
    IN IF ~at.some \/ is_dir(f, at.v) THEN Out(IoError("create"), f)
       ELSE Out(Ok(at.v), insert(f, at.v, FileNode(<<>>)))

\* write_all on a handle that appends (or one just created)
write_all(f, p, bytes) == insert(f, p, FileNode(f[p].data \o bytes))

\* fs::remove_file
remove_file(f, p) ==
    IF is_file(f, p) THEN Out(Ok(<<>>), [x \in (DOMAIN f) \ {p} |-> f[x]])
    ELSE Out(IoError("remove_file"), f)

\* ReadAt::read_exact_at on the bytes of a file: n bytes from position pos
read_exact_at(data, pos, n) ==
    IF n = 0 THEN Ok(<<>>)
    ELSE IF pos + n <= Len(data) THEN Ok(SubSeq(data, pos + 1, pos + n))
    ELSE IoError("UnexpectedEof")

\* the bytes a handle on path p reads; a directory gives none
file_bytes(f, p) == IF is_file(f, p) THEN f[p].data ELSE <<>>

\* WriteBytesExt::write_u32::<LittleEndian> of (n as u32)
le_u32(n) == <<n % 256, (n \div 256) % 256, (n \div 65536) % 256, (n \div 16777216) % 256>>

\* ReadBytesExt::read_u32_at::<LittleEndian>
read_u32_at(data, pos) ==
    LET r == read_exact_at(data, pos, 4)
    IN IF ~r.ok THEN r
       ELSE Ok(r.v[1] + 256 * r.v[2] + 65536 * r.v[3] + 16777216 * r.v[4])

zeros(n) == [i \in 1..n |-> 0]

(***************************************************************************)
(* Content::asar_to_dir and Content::dir_to_asar.                          *)
(***************************************************************************)
\* a header value of at most 9 digits fits TLC's integers; a longer
\* one lies beyond the end of every file of the model
fits(d) == Len(d) <= 9

\* extract_file reading at offset, not at start + offset
extract_file_from_zero(f, src, start, path, offset, size) ==
    LET bytes == IF fits(offset) /\ fits(size)
                 THEN read_exact_at(file_bytes(f, src), nat_of(offset), nat_of(size))
                 ELSE IoError("UnexpectedEof")
        made == File_create(f, path)
    IN IF ~bytes.ok THEN Out(bytes, f)
       ELSE IF ~made.res.ok THEN made
       ELSE Out(Ok(<<>>), write_all(made.fs, made.res.v, bytes.v))

\* the File arm of asar_to_dir: read size bytes at start + offset from the
\* archive at src, then create the file and write them
extract_file(f, src, start, path, offset, size) ==
    LET bytes == IF fits(offset) /\ fits(size)
                 THEN read_exact_at(file_bytes(f, src), start + nat_of(offset), nat_of(size))
                 ELSE IoError("UnexpectedEof")
        made == File_create(f, path)
    IN IF ~bytes.ok THEN Out(bytes, f)
       ELSE IF ~made.res.ok THEN made
       ELSE Out(Ok(<<>>), write_all(made.fs, made.res.v, bytes.v))

RECURSIVE asar_to_dir(_, _, _, _, _), children_to_dir(_, _, _, _, _, _, _)
asar_to_dir(content, f, base_path, src, start) ==
    CASE content.type = "Home" ->
            children_to_dir(content.dir, iter(content.dir), f, base_path, src, start, TRUE)
      [] content.type = "Folder" ->
            LET made == create_dir_all(f, join(base_path, content.name))
            IN IF ~made.res.ok THEN made
               ELSE children_to_dir(content.dir, iter(content.dir), made.fs,
                                    join(base_path, content.name), src, start, FALSE)
      [] content.type = "File" ->
            extract_file(f, src, start, join(base_path, content.name),
                         content.offset, content.size)
      [] OTHER -> Out(Err("UnknownContentType", "Asar archive file must be src_path", None), f)

\* children_to_dir going on with the next child after one has failed
children_to_dir_keep_going(dir, keys, f, path, src, start, home) ==
    IF keys = <<>> THEN Out(Ok(<<>>), f)
    ELSE IF ~IsObject(dir[Head(keys)])
    THEN children_to_dir(dir, Tail(keys), f, path, src, start, home)
    ELSE bind(IF home THEN create_dir_all(f, path) ELSE Out(Ok(<<>>), f), LAMBDA made :
         bind(lookahead(Head(keys), dir[Head(keys)].map), LAMBDA next :
            IF ~made.res.ok THEN made
            ELSE bind(IF next.ok THEN asar_to_dir(next.v, made.fs, path, src, start)
                      ELSE Out(next, made.fs), LAMBDA r :
                 bind(children_to_dir(dir, Tail(keys), r.fs, path, src, start, home),
                      LAMBDA rest : IF ~r.res.ok THEN Out(r.res, rest.fs) ELSE rest))))

\* the loops of asar_to_dir over the children of Home (home = TRUE: the
\* destination is created before each child) and of a Folder
children_to_dir(dir, keys, f, path, src, start, home) ==
    IF keys = <<>> THEN Out(Ok(<<>>), f)
    ELSE IF ~IsObject(dir[Head(keys)])
    THEN children_to_dir(dir, Tail(keys), f, path, src, start, home)
    ELSE bind(IF home THEN create_dir_all(f, path) ELSE Out(Ok(<<>>), f), LAMBDA made :
         bind(lookahead(Head(keys), dir[Head(keys)].map), LAMBDA next :
            IF ~made.res.ok THEN made
            ELSE IF ~next.ok THEN Out(next, made.fs)
            ELSE bind(asar_to_dir(next.v, made.fs, path, src, start), LAMBDA r :
                    IF ~r.res.ok THEN r
                    ELSE children_to_dir(dir, Tail(keys), r.fs, path, src, start, home))))

\* the body of dir_to_asar's loop up to the write: a buffer of size zero
\* bytes, to which read_to_end appends the whole source file
read_source(f, path, size) ==
    IF ~exists(f, path) THEN IoError("NotFound")
    ELSE IF is_dir(f, path) THEN IoError("IsADirectory")
    ELSE Ok(zeros(size) \o f[path].data)

RECURSIVE list_to_asar(_, _, _)
list_to_asar(paths, f, dest) ==
    IF paths = <<>> THEN Out(Ok(<<>>), f)
    ELSE bind(read_source(f, Head(paths).path, Head(paths).size), LAMBDA buf :
            IF ~buf.ok THEN Out(buf, f)
            ELSE bind(write_all(f, dest, buf.v), LAMBDA g : list_to_asar(Tail(paths), g, dest)))

dir_to_asar(content, f, dest) ==
    IF content.type = "List" THEN list_to_asar(content.list, f, dest)
    ELSE Out(Err("UnknownContentType", "Folder must be src_path, Asar archive file found",
                 None), f)

(***************************************************************************)
(* struct Asar (src/src/asar.rs).                                          *)
(***************************************************************************)
JSON_LEN_OFFSET == 12
JSON_OFFSET == 16
HEADER_LEN_OFFSET == 8

Asar(src_path, content, start, header) ==
    [src_path |-> src_path, content |-> content, start |-> start, header |-> header]

\* get_asar_header with start taken from the JSON length at offset 12
get_asar_header_from_json_len(data) ==
    LET json_len == read_u32_at(data, JSON_LEN_OFFSET)
        json_u8 == read_exact_at(data, JSON_OFFSET, json_len.v)
        value == from_slice(json_u8.v)
    IN IF ~json_len.ok THEN json_len
       ELSE IF ~json_u8.ok THEN json_u8
       ELSE IF ~value.ok THEN Err("SerdeJsonError", "from_slice", None)
       ELSE Ok([header |-> value.v, start |-> json_len.v + 16])

get_asar_header(data) ==
    LET json_len == read_u32_at(data, JSON_LEN_OFFSET)
        json_u8 == read_exact_at(data, JSON_OFFSET, json_len.v)
        value == from_slice(json_u8.v)
        hlen == read_u32_at(data, HEADER_LEN_OFFSET)
    IN IF ~json_len.ok THEN json_len
       ELSE IF ~json_u8.ok THEN json_u8
       ELSE IF ~value.ok THEN Err("SerdeJsonError", "from_slice", None)
       ELSE IF ~hlen.ok THEN hlen
       ELSE Ok([header |-> value.v, start |-> hlen.v + 12])

\* file_to_value with the running offset left where it was
file_to_value_no_advance(path, len, offset, list) ==
    [value |-> JObject((sSize :> JU64(len)) @@ (sOffset :> JString(to_string(offset)))),
     offset |-> offset,
     list |-> Append(list, [path |-> path, size |-> len])]

\* file_to_value with the offset taken after the file instead of before it
file_to_value_offset_after(path, len, offset, list) ==
    [value |-> JObject((sSize :> JU64(len)) @@ (sOffset :> JString(to_string(offset + len)))),
     offset |-> offset + len,
     list |-> Append(list, [path |-> path, size |-> len])]

\* the file arm of dir_to_value
file_to_value(path, len, offset, list) ==
    [value |-> JObject((sSize :> JU64(len)) @@ (sOffset :> JString(to_string(offset)))),
     offset |-> offset + len,
     list |-> Append(list, [path |-> path, size |-> len])]

\* dir_to_value; entries_to_value is its loop over read_dir
RECURSIVE dir_to_value(_, _, _, _, _), entries_to_value(_, _, _, _, _, _, _)
dir_to_value(f, order, path, offset, list) ==
    IF ~exists(f, path) THEN IoError("metadata")
    ELSE IF is_dir(f, path)
    THEN entries_to_value(f, order, path, read_dir(f, path, order), EmptyMap, offset, list)
    ELSE Ok(file_to_value(path, Len(f[path].data), offset, list))

entries_to_value(f, order, path, names, folder_content, offset, list) ==
    IF names = <<>>
    THEN Ok([value |-> JObject((sFiles :> JObject(folder_content))),
             offset |-> offset, list |-> list])
    ELSE bind(dir_to_value(f, order, path \o <<Head(names)>>, offset, list), LAMBDA r :
            IF ~r.ok THEN r
            ELSE bind(insert(folder_content, Head(names), r.v.value), LAMBDA m :
                    entries_to_value(f, order, path, Tail(names), m, r.v.offset, r.v.list)))

gen_header_from_dir(f, order, path) ==
    LET r == dir_to_value(f, order, path, 0, <<>>)
    IN IF ~r.ok THEN r ELSE Ok([header |-> r.v.value, list |-> r.v.list])

\* Asar::open
open(f, order, src_path) ==
    IF is_dir(f, src_path)
    THEN LET g == gen_header_from_dir(f, order, src_path)
         IN IF ~g.ok THEN g
            ELSE Ok(Asar(src_path, new_list(g.v.list), Len(to_vec(g.v.header)) + 16,
                         Some(g.v.header)))
    ELSE IF ~exists(f, src_path) THEN IoError("NotFound")
    ELSE LET h == get_asar_header(file_bytes(f, src_path))
         IN IF ~h.ok
            THEN Err("ParseHeaderError", "Failed to parse archive header, check format", None)
            ELSE LET c == new_json(h.v.header)
                 IN IF ~c.ok THEN c ELSE Ok(Asar(src_path, c.v, h.v.start, None))

\* Path::to_str: the components with '/' between them
RECURSIVE to_str(_)
to_str(p) ==
    IF p = <<>> THEN <<>>
    ELSE IF Len(p) = 1 THEN p[1]
    ELSE IF p[1] = RootDir THEN p[1] \o to_str(Tail(p))
    ELSE p[1] \o <<Ch.slash>> \o to_str(Tail(p))

\* str::contains
contains(str, pat) ==
    \E i \in 0..(Len(str) - Len(pat)) : SubSeq(str, i + 1, i + Len(pat)) = pat

\* the strings of a vector of paths
RECURSIVE to_strings(_)
to_strings(v) == IF v = <<>> THEN <<>> ELSE <<to_str(Head(v))>> \o to_strings(Tail(v))

\* Asar::list
list(a) ==
    bind(paths_to_vec(a.content), LAMBDA r : IF ~r.ok THEN r ELSE Ok(to_strings(r.v)))

\* Asar::extract
extract(f, a, destination) ==
    IF ~exists(f, a.src_path) THEN Out(IoError("NotFound"), f)
    ELSE asar_to_dir(a.content, f, destination, a.src_path, a.start)

\* header_prefix with the second and third field exchanged
header_prefix_swapped(start) ==
    le_u32(4) \o le_u32(start - 12) \o le_u32(start - 8) \o le_u32(start - 16)

\* the sixteen bytes Asar::pack writes before the header
header_prefix(start) ==
    le_u32(4) \o le_u32(start - 8) \o le_u32(start - 12) \o le_u32(start - 16)

\* Asar::pack
pack(f, a, destination) ==
    LET gone == IF exists(f, destination) THEN remove_file(f, destination)
                ELSE Out(Ok(<<>>), f)
        made == IF is_dir(gone.fs, parent(destination))
                THEN Out(Ok(<<>>), insert(gone.fs, destination, FileNode(<<>>)))
                ELSE Out(IoError("open"), gone.fs)
    IN IF ~gone.res.ok THEN gone
       ELSE IF ~made.res.ok THEN made
       ELSE IF ~a.header.some
       THEN Out(Err("UnknownContentType", "Can not have Asar archive file open", None),
                made.fs)
       ELSE dir_to_asar(a.content,
                        write_all(made.fs, destination,
                                  header_prefix(a.start) \o to_vec(a.header.v)),
                        destination)

\* get_file reading at offset, not at start + offset
get_file_from_zero(f, a, path) ==
    LET c == find(a.content, path)
    IN IF is_dir(f, a.src_path) THEN None
       ELSE IF "panic" \in DOMAIN c THEN Panic
       ELSE IF c.some /\ c.v.type = "File" /\ is_file(f, a.src_path)
       THEN LET r == IF fits(c.v.offset) /\ fits(c.v.size)
                     THEN read_exact_at(file_bytes(f, a.src_path),
                                        nat_of(c.v.offset), nat_of(c.v.size))
                     ELSE IoError("UnexpectedEof")
            IN IF r.ok THEN Some(r.v) ELSE None
       ELSE None

\* Asar::get_file; a panic of find is a panic of get_file
get_file(f, a, path) ==
    LET c == find(a.content, path)
    IN IF is_dir(f, a.src_path) THEN None
       ELSE IF "panic" \in DOMAIN c THEN Panic
       ELSE IF c.some /\ c.v.type = "File" /\ is_file(f, a.src_path)
       THEN LET r == IF fits(c.v.offset) /\ fits(c.v.size)
                     THEN read_exact_at(file_bytes(f, a.src_path),
                                        a.start + nat_of(c.v.offset), nat_of(c.v.size))
                     ELSE IoError("UnexpectedEof")
            IN IF r.ok THEN Some(r.v) ELSE None
       ELSE None

\* Asar::get_paths_contain
get_paths_contain(a, pat) ==
    bind(paths_to_vec(a.content), LAMBDA r :
       IF ~r.ok THEN <<>>
       ELSE SelectSeq(r.v, LAMBDA path :
                file_name(path).some /\ contains(file_name(path).v, pat)))

(***************************************************************************)
(* The directories and archives the model starts from.                     *)
(***************************************************************************)
\* "a", "b": the names of files and folders
nA == <<97>>
nB == <<98>>
Names == {nA, nB}

\* "s": the source directory; "x": the archive pack writes; "o": the
\* directory extract writes; "i": an archive that comes from elsewhere
pSrc == <<<<115>>>>
pAsar == <<<<120>>>>
pOut == <<<<111>>>>
pIn == <<<<105>>>>

\* the orders in which the system may list a directory
Orders == {o \in [1..Cardinality(Names) -> Names] : \A i, j \in DOMAIN o : o[i] = o[j] => i = j}

\* a tree's shape: the relative paths of its entries
RelPaths == UNION {[1..k -> Names] : k \in 1..MaxDepth}
Shapes == {S \in SUBSET RelPaths :
              /\ Cardinality(S) <= MaxEntries
              /\ \A q \in S : Len(q) > 1 => parent(q) \in S}
Leaves(S) == {q \in S : \A n \in Names : (q \o <<n>>) \notin S}

\* the contents of the source file at relative path q, when n bytes long:
\* no zero byte, and different for the two names and for each depth
contents(q, n) == [i \in 1..n |-> 10 * Len(q) + (IF q[Len(q)] = nA THEN 0 ELSE 5) + i]

\* a source directory: lens gives each leaf its length, -1 for an empty folder
SrcFs(S, lens) ==
    [q \in {<<>>, pSrc} \cup {pSrc \o r : r \in S} |->
        IF q \in {<<>>, pSrc} THEN DirNode
        ELSE LET r == SubSeq(q, 2, Len(q))
             IN IF r \notin Leaves(S) \/ lens[r] = -1 THEN DirNode
                ELSE FileNode(contents(r, lens[r]))]

\* the descriptors a header from elsewhere gives its leaves: files whose
\* region lies inside or outside the data, an empty folder, a value that
\* is no object, an object of neither shape
FileDescr(offset, size) == JObject((sSize :> JU64(size)) @@ (sOffset :> JString(to_string(offset))))
FolderDescr(m) == JObject((sFiles :> JObject(m)))
LeafValues ==
    {FileDescr(offset, size) : offset \in {0, MaxFileLen}, size \in 0..MaxFileLen}
    \cup {FolderDescr(EmptyMap), JNull, JObject(EmptyMap)}

RECURSIVE header_map(_, _, _)
header_map(S, lab, q) ==
    [n \in {m \in Names : (q \o <<m>>) \in S} |->
        IF (q \o <<n>>) \in Leaves(S) THEN lab[q \o <<n>>]
        ELSE FolderDescr(header_map(S, lab, q \o <<n>>))]

\* the data region of an archive from elsewhere
ForeignData == [i \in 1..(MaxFileLen + 1) |-> 40 + i]

\* an archive whose field at offset 8 is the payload length + 4 + pad
archive_bytes(header, pad, data) ==
    LET json == to_vec(header)
    IN le_u32(4) \o le_u32(Len(json) + 8 + pad) \o le_u32(Len(json) + 4 + pad)
       \o le_u32(Len(json)) \o json \o zeros(pad) \o data

\* what the destination directory may hold beforehand: a file "o/a"
OldFile == FileNode(<<9, 9, 9, 9>>)

ArchiveFs(header, pad, old) ==
    LET base == (<<>> :> DirNode) @@ (pIn :> FileNode(archive_bytes(header, pad, ForeignData)))
    IN IF old THEN insert(insert(base, pOut, DirNode), pOut \o <<nA>>, OldFile) ELSE base

InitRet == [op |-> "init", arg |-> <<>>, res |-> Ok(<<>>), before |-> EmptyMap]

InitDir ==
    \E S \in Shapes : \E lens \in [Leaves(S) -> -1..MaxFileLen] : \E order \in Orders :
        /\ fs = SrcFs(S, lens)
        /\ dirOrder = order
        /\ asar = None
        /\ ret = InitRet

InitArchive ==
    \E S \in Shapes : \E lab \in [Leaves(S) -> LeafValues] :
    \E pad \in {0, 4} : \E old \in BOOLEAN :
        /\ fs = ArchiveFs(FolderDescr(header_map(S, lab, <<>>)), pad, old)
        /\ dirOrder = SortedSeq(Names)
        /\ asar = None
        /\ ret = InitRet

\* the tree of the test archive: a folder with two files, and a file
FixtureShape == {<<nA>>, <<nA, nA>>, <<nA, nB>>, <<nB>>}

\* the descriptors of the trees that are searched and listed
TreeLeafValues ==
    {FileDescr(0, 1), FileDescr(1, MaxFileLen), FolderDescr(EmptyMap), JNull, JObject(EmptyMap)}

InitTree ==
    \E S \in Shapes \cup {FixtureShape} : \E lab \in [Leaves(S) -> TreeLeafValues] :
        /\ fs = ArchiveFs(FolderDescr(header_map(S, lab, <<>>)), 0, FALSE)
        /\ dirOrder = SortedSeq(Names)
        /\ asar = None
        /\ ret = InitRet

\* the paths that are looked for: child names and "..", one level deeper
\* than the trees
FindPaths == UNION {[1..k -> Names \cup {ParentDir}] : k \in 0..(MaxDepth + 1)}

\* the names and descriptors that are classified
SizeValues ==
    {JU64(0), JU64(MaxFileLen), JNumber(TRUE, <<1>>, <<>>), JNumber(FALSE, <<1>>, <<5>>),
     JNumber(FALSE, MAX_SAFE_INTEGER, <<>>),
     JNumber(FALSE, <<9, 0, 0, 7, 1, 9, 9, 2, 5, 4, 7, 4, 0, 9, 9, 2>>, <<>>),
     JNumber(FALSE, U64_MAX, <<>>), JNumber(FALSE, U64_MAX \o <<0>>, <<>>),
     JString(<<Ch.zero>>), JNull}
OffsetValues ==
    {JString(<<Ch.zero>>), JString(<<Ch.plus, Ch.nine>>), JString(<<Ch.minus, Ch.nine>>),
     JString(<<>>), JString(nA), JString(digit_chars(U64_MAX \o <<0>>)), JU64(0), JNull}
FilesValues == {JObject(EmptyMap), JObject(nA :> JNull), JString(nA), JNull}

Descriptors ==
    {[k \in K |-> CASE k = sSize -> sv [] k = sOffset -> ov [] OTHER -> fv] :
        K \in SUBSET {sSize, sOffset, sFiles},
        sv \in SizeValues, ov \in OffsetValues, fv \in FilesValues}

InitClassify ==
    \E name \in {<<>>, nA, nB \o <<Ch.dot>> \o nA} : \E item \in Descriptors :
        /\ fs = (<<>> :> DirNode)
        /\ dirOrder = SortedSeq(Names)
        /\ asar = None
        /\ ret = [op |-> "input", arg |-> <<name, item>>, res |-> Ok(<<>>), before |-> EmptyMap]

\* the descriptors of the archives that are read: files whose region lies
\* inside the data or runs past its end, an empty folder, a value that is
\* no object, an object of neither shape
ReadLeafValues ==
    {FileDescr(0, 1), FileDescr(1, MaxFileLen), FileDescr(MaxFileLen, MaxFileLen),
     FolderDescr(EmptyMap), JNull, JObject(EmptyMap)}

\* a directory "s" of a folder "a" with a file "b", and a file "b"
ReadDir ==
    (pSrc :> DirNode) @@ (pSrc \o <<nA>> :> DirNode)
    @@ (pSrc \o <<nA, nB>> :> FileNode(<<11>>))
    @@ (pSrc \o <<nB>> :> FileNode(<<16, 17>>))

\* an archive "i" beside the directory "s"
InitRead ==
    \E S \in Shapes : \E lab \in [Leaves(S) -> ReadLeafValues] :
        /\ fs = ArchiveFs(FolderDescr(header_map(S, lab, <<>>)), 0, FALSE) @@ ReadDir
        /\ dirOrder = SortedSeq(Names)
        /\ asar = None
        /\ ret = InitRet

\* the paths that are read and the patterns that are looked for
ReadPaths == {<<>>, <<ParentDir>>, <<nA, nA, nA>>} \cup RelPaths
Patterns == {<<>>, nA, nB, nA \o <<Ch.slash>>, nA \o <<Ch.slash>> \o nB}

\* the files that are opened as archives: archives whose payload is an
\* object or another JSON value, cut short at every length, or with a
\* payload that is no JSON text
OpenHeaders ==
    {JNull, JString(nA), JU64(MaxFileLen), JObject(EmptyMap), FolderDescr(EmptyMap),
     FolderDescr(nA :> FileDescr(0, 1))}
OpenFiles ==
    UNION {LET full == archive_bytes(h, 0, ForeignData)
           IN {SubSeq(full, 1, k) : k \in 0..Len(full)}
              \cup {[full EXCEPT ![JSON_OFFSET + 1] = Ch.colon]}
           : h \in OpenHeaders}

InitOpen ==
    \E data \in OpenFiles :
        /\ fs = (<<>> :> DirNode) @@ (pIn :> FileNode(data))
        /\ dirOrder = SortedSeq(Names)
        /\ asar = None
        /\ ret = InitRet

\* child names that are no plain names: "..", "/b", "../b", "a/b"
OddNames ==
    {ParentDir, <<Ch.slash>> \o nB, ParentDir \o <<Ch.slash>> \o nB, nA \o <<Ch.slash>> \o nB}

\* headers of one or two children under plain or odd names, each a file,
\* an empty folder or a folder of one file
OddLabels ==
    {FileDescr(0, 1), FolderDescr(EmptyMap)}
    \cup {FolderDescr(n :> FileDescr(1, 1)) : n \in {nA} \cup OddNames}
OddHeaders ==
    UNION {[K -> OddLabels] : K \in {L \in SUBSET ({nA} \cup OddNames) : Cardinality(L) \in {1, 2}}}

\* an archive "i" in a working directory below the root directory "/"
InitOdd ==
    \E m \in OddHeaders :
        /\ fs = ArchiveFs(FolderDescr(m), 0, FALSE) @@ (<<RootDir>> :> DirNode)
        /\ dirOrder = SortedSeq(Names)
        /\ asar = None
        /\ ret = InitRet

Init == InitDir

(***************************************************************************)
(* The operations of a program that holds one handle.                      *)
(***************************************************************************)
\* what the last call was and returned; before: the filesystem a call that
\* writes files started from
Result(op, arg, res, before) == [op |-> op, arg |-> arg, res |-> res, before |-> before]

Open(p) ==
    LET r == open(fs, dirOrder, p)
    IN /\ asar' = IF r.ok THEN Some(r.v) ELSE asar
       /\ ret' = Result("open", p, IF r.ok THEN Ok(<<>>) ELSE r, EmptyMap)
       /\ UNCHANGED <<fs, dirOrder>>

Pack(d) ==
    /\ asar.some
    /\ LET o == pack(fs, asar.v, d)
       IN /\ fs' = o.fs
          /\ ret' = Result("pack", d, o.res, fs)
    /\ UNCHANGED <<asar, dirOrder>>

Extract(d) ==
    /\ asar.some
    /\ LET o == extract(fs, asar.v, d)
       IN /\ fs' = o.fs
          /\ ret' = Result("extract", d, o.res, fs)
    /\ UNCHANGED <<asar, dirOrder>>

\* content.find(path) on the handle's tree
Find(q) ==
    /\ asar.some
    /\ ret' = Result("find", q, find(asar.v.content, q), EmptyMap)
    /\ UNCHANGED <<fs, dirOrder, asar>>

\* Asar::list
ListPaths ==
    /\ asar.some
    /\ ret' = Result("list", <<>>, list(asar.v), EmptyMap)
    /\ UNCHANGED <<fs, dirOrder, asar>>

\* lookahead(name, item) on a name and a descriptor drawn at the start
Lookahead ==
    /\ ret.op = "input"
    /\ ret' = Result("lookahead", ret.arg, lookahead(ret.arg[1], ret.arg[2]), EmptyMap)
    /\ UNCHANGED <<fs, dirOrder, asar>>

\* Asar::get_file
GetFile(q) ==
    /\ asar.some
    /\ ret' = Result("get_file", q, get_file(fs, asar.v, q), EmptyMap)
    /\ UNCHANGED <<fs, dirOrder, asar>>

\* Asar::get_paths_contain
GetPathsContain(pat) ==
    /\ asar.some
    /\ ret' = Result("get_paths_contain", pat, get_paths_contain(asar.v, pat), EmptyMap)
    /\ UNCHANGED <<fs, dirOrder, asar>>

Next ==
    \/ \E p \in {pSrc, pAsar, pIn} : Open(p)
    \/ Pack(pAsar)
    \/ Extract(pOut)

Spec == Init /\ [][Next]_vars

SpecArchive == InitArchive /\ [][Next]_vars

NextTree ==
    \/ Open(pIn)
    \/ \E q \in FindPaths : Find(q)
    \/ ListPaths

SpecTree == InitTree /\ [][NextTree]_vars

SpecClassify == InitClassify /\ [][Lookahead]_vars

SpecOdd == InitOdd /\ [][Open(pIn) \/ Extract(pOut)]_vars

SpecOpen == InitOpen /\ [][Open(pIn)]_vars

NextRead ==
    \/ \E p \in {pSrc, pIn} : Open(p)
    \/ \E q \in ReadPaths : GetFile(q)
    \/ \E pat \in Patterns : GetPathsContain(pat)
    \/ ListPaths

SpecRead == InitRead /\ [][NextRead]_vars

\* the descriptors of the archives whose entries may be malformed: a file,
\* an empty folder, an object of neither shape, a size above the ceiling,
\* an offset that is no number
MalformedLeafValues ==
    {FileDescr(0, 1), FolderDescr(EmptyMap), JObject(EmptyMap),
     JObject((sSize :> JNumber(FALSE, <<9, 0, 0, 7, 1, 9, 9, 2, 5, 4, 7, 4, 0, 9, 9, 2>>, <<>>))
             @@ (sOffset :> JString(<<Ch.zero>>))),
     JObject((sSize :> JU64(1)) @@ (sOffset :> JString(nA)))}

InitMalformed ==
    \E S \in Shapes : \E lab \in [Leaves(S) -> MalformedLeafValues] :
        /\ fs = ArchiveFs(FolderDescr(header_map(S, lab, <<>>)), 0, FALSE)
        /\ dirOrder = SortedSeq(Names)
        /\ asar = None
        /\ ret = InitRet

NextMalformed ==
    \/ Open(pIn)
    \/ \E q \in ReadPaths : Find(q)
    \/ \E q \in ReadPaths : GetFile(q)

SpecMalformed == InitMalformed /\ [][NextMalformed]_vars

(***************************************************************************)
(* What the claims speak of.                                               *)
(***************************************************************************)
\* the File and Folder entries reachable in a tree, each with its path
RECURSIVE Entries(_, _)
Entries(dir, prefix) ==
    UNION {LET r == lookahead(n, dir[n].map)
           IN IF ~r.ok THEN {}
              ELSE IF r.v.type = "File"
              THEN {[path |-> join(prefix, r.v.name), kind |-> "File",
                     offset |-> r.v.offset, size |-> r.v.size]}
              ELSE IF r.v.type = "Folder"
              THEN {[path |-> join(prefix, r.v.name), kind |-> "Folder",
                     offset |-> <<>>, size |-> <<>>]}
                   \cup Entries(r.v.dir, join(prefix, r.v.name))
              ELSE {}
           : n \in {m \in DOMAIN dir : IsObject(dir[m])}}

FileEntries(dir) == {e \in Entries(dir, <<>>) : e.kind = "File"}

\* the handle was opened from a directory / from an archive
DirHandle == asar.some /\ asar.v.header.some
ArchiveHandle == asar.some /\ ~asar.v.header.some

\* the packing list, the header's File entries and a listed path made
\* relative to the directory
PackingList == asar.v.content.list
HeaderFiles == FileEntries(asar.v.header.v.map[sFiles].map)
Rel(q) == SubSeq(q, Len(asar.v.src_path) + 1, Len(q))
HeaderEntry(i) == CHOOSE e \in HeaderFiles : e.path = Rel(PackingList[i].path)

RECURSIVE SumSizes(_, _)
SumSizes(l, n) == IF n = 0 THEN 0 ELSE SumSizes(l, n - 1) + l[n].size

\* q is visited before r by a depth-first walk that lists names in order
Rank(order, n) == CHOOSE i \in DOMAIN order : order[i] = n
VisitedBefore(order, q, r) ==
    \E k \in 1..Len(q) :
        /\ k <= Len(r)
        /\ SubSeq(q, 1, k - 1) = SubSeq(r, 1, k - 1)
        /\ Rank(order, q[k]) < Rank(order, r[k])

\* C4: in the result of gen_header_from_dir every File entry's offset is
\* the sum of the sizes of the files put on the packing list before it (0
\* for the first), and the packing list holds one (path, size) pair per
\* File entry of the header, in depth-first visiting order, with the size
\* of the header entry, which is the file's length.
C4_OffsetsArePrefixSums ==
    DirHandle =>
        /\ Cardinality(HeaderFiles) = Len(PackingList)
        /\ \A i \in 1..Len(PackingList) :
            /\ \E e \in HeaderFiles : e.path = Rel(PackingList[i].path)
            /\ nat_of(HeaderEntry(i).offset) = SumSizes(PackingList, i - 1)
            /\ nat_of(HeaderEntry(i).size) = PackingList[i].size
            /\ PackingList[i].size = Len(fs[PackingList[i].path].data)
        /\ \A i, j \in 1..Len(PackingList) :
            i < j => VisitedBefore(dirOrder, Rel(PackingList[i].path), Rel(PackingList[j].path))

\* a directory whose first listed file has 2 bytes puts the next at offset 2
C4_Witness ==
    /\ DirHandle
    /\ Len(PackingList) = 2
    /\ PackingList[1].size = 2
    /\ PackingList[2].size = 1
    /\ HeaderEntry(1).offset = <<0>>
    /\ HeaderEntry(2).offset = <<2>>

\* C5 as stated: the offsets are strictly increasing along the packing
\* list, so that no two File entries carry the same offset.
C5_StrictlyIncreasing ==
    DirHandle =>
        \A i, j \in 1..Len(PackingList) :
            i < j => nat_of(HeaderEntry(i).offset) < nat_of(HeaderEntry(j).offset)

\* C5 amended: the offsets never decrease along the packing list, and two
\* File entries carry the same offset exactly when every file from the
\* earlier one up to the later one is empty.
C5_NonDecreasing ==
    DirHandle =>
        \A i, j \in 1..Len(PackingList) :
            i < j =>
                /\ nat_of(HeaderEntry(i).offset) <= nat_of(HeaderEntry(j).offset)
                /\ (nat_of(HeaderEntry(i).offset) = nat_of(HeaderEntry(j).offset)
                    <=> \A k \in i..(j - 1) : PackingList[k].size = 0)

\* an empty file and the file after it share offset 0
C5_Witness ==
    /\ DirHandle
    /\ Len(PackingList) = 2
    /\ PackingList[1].size = 0
    /\ PackingList[2].size > 0
    /\ HeaderEntry(1).offset = HeaderEntry(2).offset

\* the last call was a pack (an extract, an open) that returned Ok
Packed == ret.op = "pack" /\ ret.res.ok
Extracted == ret.op = "extract" /\ ret.res.ok
Opened == ret.op = "open" /\ ret.res.ok

\* the bytes of the file the last call was given
ArgBytes == fs[ret.arg].data
\* the u32 at a position of those bytes
Field(pos) == read_u32_at(ArgBytes, pos).v
Payload == to_vec(asar.v.header.v)

\* C6: pack of a directory-opened handle writes the little-endian u32
\* values 4, payloadLen + 8, payloadLen + 4, payloadLen at offsets 0, 4, 8,
\* 12, then at offset 16 the payloadLen bytes of the serialized header,
\* which parse back to the header; the handle's start is 16 + payloadLen.
C6_HeaderFraming ==
    (Packed /\ DirHandle) =>
        /\ Len(ArgBytes) >= 16 + Len(Payload)
        /\ Field(0) = 4
        /\ Field(4) = Len(Payload) + 8
        /\ Field(8) = Len(Payload) + 4
        /\ Field(12) = Len(Payload)
        /\ SubSeq(ArgBytes, 17, 16 + Len(Payload)) = Payload
        /\ from_slice(SubSeq(ArgBytes, 17, 16 + Field(12))) = [ok |-> TRUE, v |-> asar.v.header.v]
        /\ asar.v.start = 16 + Len(Payload)

\* a directory with a file and a folder has been packed
C6_Witness ==
    /\ Packed /\ DirHandle
    /\ Len(PackingList) >= 1
    /\ \E e \in Entries(asar.v.header.v.map[sFiles].map, <<>>) : e.kind = "Folder"

RECURSIVE ConcatFiles(_, _)
ConcatFiles(f, l) == IF l = <<>> THEN <<>> ELSE f[Head(l).path].data \o ConcatFiles(f, Tail(l))

\* C2: after a successful pack of a directory-opened handle the archive
\* from start = 16 + payloadLen to its end is the contents of the listed
\* files one after the other, and the file at list index i occupies
\* [start + offset_i, start + offset_i + size_i).
C2_DataRegion ==
    (Packed /\ DirHandle) =>
        LET start == 16 + Len(Payload)
        IN /\ SubSeq(ArgBytes, start + 1, Len(ArgBytes)) = ConcatFiles(fs, PackingList)
           /\ \A i \in 1..Len(PackingList) :
                LET from == start + nat_of(HeaderEntry(i).offset)
                IN /\ from + PackingList[i].size <= Len(ArgBytes)
                   /\ SubSeq(ArgBytes, from + 1, from + PackingList[i].size)
                        = fs[PackingList[i].path].data

\* the relative paths of what lies under a directory
Under(f, d) == {SubSeq(q, Len(d) + 1, Len(q)) : q \in {r \in DOMAIN f : Len(r) > Len(d) /\ starts_with(r, d)}}

SameTree(f, d, e) ==
    /\ Under(f, d) = Under(f, e)
    /\ \A q \in Under(f, d) : f[d \o q] = f[e \o q]

\* the archive at "x" is what packing the directory "s" gives
IsPackOfSource ==
    LET h == open(fs, dirOrder, pSrc)
    IN /\ h.ok
       /\ is_file(fs, pAsar)
       /\ pack(fs, h.v, pAsar).res.ok
       /\ pack(fs, h.v, pAsar).fs[pAsar] = fs[pAsar]

\* C1: packing a directory of files and folders, opening the archive and
\* extracting it into an empty destination gives the same relative paths
\* as the directory and byte-identical files.
C1_RoundTrip ==
    (/\ Extracted /\ ArchiveHandle /\ asar.v.src_path = pAsar
     /\ IsPackOfSource
     /\ Under(ret.before, ret.arg) = {})
        => SameTree(fs, pSrc, ret.arg)

\* C3: after a successful extract of a decoded archive into R every File
\* entry at path p with (offset, size) is the file R/p holding the size
\* bytes of the archive at [start + offset, start + offset + size),
\* whatever R/p held before, and every Folder entry at q is the directory
\* R/q.
C3_ExtractWritesRegions ==
    (Extracted /\ ArchiveHandle) =>
        LET archive == ret.before[asar.v.src_path].data
        IN \A e \in Entries(asar.v.content.dir, <<>>) :
            IF e.kind = "Folder" THEN is_dir(fs, join(ret.arg, e.path))
            ELSE LET from == asar.v.start + nat_of(e.offset)
                 IN /\ is_file(fs, join(ret.arg, e.path))
                    /\ Len(fs[join(ret.arg, e.path)].data) = nat_of(e.size)
                    /\ e.size # <<0>> =>
                        /\ from + nat_of(e.size) <= Len(archive)
                        /\ fs[join(ret.arg, e.path)].data
                             = SubSeq(archive, from + 1, from + nat_of(e.size))

\* an archive with a folder and a file of two bytes has been extracted
\* over a destination that held another file at the file's path
C3_Witness ==
    /\ Extracted /\ ArchiveHandle
    /\ \E e \in Entries(asar.v.content.dir, <<>>) : e.kind = "Folder"
    /\ \E e \in Entries(asar.v.content.dir, <<>>) :
        /\ e.kind = "File" /\ e.size = <<2>>
        /\ is_file(ret.before, join(ret.arg, e.path))
        /\ ret.before[join(ret.arg, e.path)] = OldFile
        /\ fs[join(ret.arg, e.path)] # OldFile

\* C7 as stated: the start that decoding returns is 16 + payloadLen, the
\* u32 at offset 12.
C7_StartFromJsonLen ==
    (Opened /\ ArchiveHandle /\ asar.v.src_path = ret.arg) =>
        asar.v.start = 16 + Field(12)

\* C7 amended: the start that decoding returns is 12 + the u32 at offset
\* 8; it is 16 + payloadLen exactly when that u32 is payloadLen + 4.
C7_StartFromHeaderLen ==
    (Opened /\ ArchiveHandle /\ asar.v.src_path = ret.arg) =>
        /\ asar.v.start = 12 + Field(8)
        /\ (asar.v.start = 16 + Field(12)) <=> (Field(8) = Field(12) + 4)

\* an archive whose header is followed by four bytes of padding is opened
C7_Witness ==
    /\ Opened /\ ArchiveHandle /\ asar.v.src_path = ret.arg
    /\ Field(8) = Field(12) + 8
    /\ asar.v.start = 20 + Field(12)

\* every descriptor of a tree is an object of the File or the Folder shape
RECURSIVE WellFormed(_)
WellFormed(dir) ==
    \A n \in DOMAIN dir :
        /\ IsObject(dir[n])
        /\ lookahead(n, dir[n].map).ok
        /\ lookahead(n, dir[n].map).v.type \in {"File", "Folder"}
        /\ lookahead(n, dir[n].map).v.type = "Folder" => WellFormed(lookahead(n, dir[n].map).v.dir)

\* the descriptor a header gives the entry at a path of child names
RECURSIVE DescrAt(_, _)
DescrAt(dir, q) ==
    IF Len(q) = 1 THEN dir[q[1]].map ELSE DescrAt(dir[q[1]].map[sFiles].map, Tail(q))

\* the paths that a list of path strings names
Listed(v) == {Path_new(v[i]) : i \in DOMAIN v}
Tree == asar.v.content

\* C8: find agrees with the tree for every path: the empty path gives the
\* Root node; a path that list returns gives the node at that path, a File
\* with its name and the offset and size of its descriptor, a Folder with
\* its name and its children map; any other path gives not-found.
C8_FindAgreesWithTree ==
    (ret.op = "find" /\ ArchiveHandle /\ list(asar.v).ok) =>
        IF ret.arg = <<>> THEN ret.res = Some(Tree)
        ELSE IF ret.arg \in Listed(list(asar.v).v)
        THEN LET d == DescrAt(Tree.dir, ret.arg)
                 name == <<ret.arg[Len(ret.arg)]>>
             IN IF sFiles \in DOMAIN d
                THEN ret.res = Some(Folder(name, d[sFiles].map))
                ELSE ret.res = Some(File(name, strip_zeros(char_digits(d[sOffset].s)), d[sSize].int))
        ELSE ret.res = None

\* one path comes before the other in a walk that visits a folder before
\* its children and the children in the order of the map
RECURSIVE PreOrder(_, _)
PreOrder(q, r) ==
    IF q = <<>> THEN r # <<>>
    ELSE IF r = <<>> THEN FALSE
    ELSE IF q[1] # r[1] THEN StrLess(q[1], r[1])
    ELSE PreOrder(Tail(q), Tail(r))

\* C9: list on a well-formed decoded tree returns the path of every Folder
\* and every File, each once and never the Root, a folder before all its
\* descendants and a child's whole subtree before its next sibling.
C9_ListIsPreOrder ==
    (ret.op = "list" /\ ArchiveHandle /\ WellFormed(Tree.dir)) =>
        /\ ret.res.ok
        /\ Listed(ret.res.v) = {e.path : e \in Entries(Tree.dir, <<>>)}
        /\ <<>> \notin Listed(ret.res.v)
        /\ \A i, j \in DOMAIN ret.res.v : i < j => PreOrder(Path_new(ret.res.v[i]), Path_new(ret.res.v[j]))

\* the tree of a folder with two files and of a file has been listed
C9_Witness ==
    /\ ret.op = "list" /\ ArchiveHandle /\ WellFormed(Tree.dir)
    /\ ret.res = Ok(<<nA, nA \o <<Ch.slash>> \o nA, nA \o <<Ch.slash>> \o nB, nB>>)
    /\ {e.path : e \in FileEntries(Tree.dir)} = {<<nA, nA>>, <<nA, nB>>, <<nB>>}

\* what the last lookahead was given, and the shapes of the descriptor
Name == ret.arg[1]
Item == ret.arg[2]
FileShape ==
    /\ sSize \in DOMAIN Item /\ Item[sSize].type = "number"
    /\ sOffset \in DOMAIN Item /\ Item[sOffset].type = "string"
FolderShape == sFiles \in DOMAIN Item /\ Item[sFiles].type = "object"
NamesEntity == ~ret.res.ok /\ ret.res.err = "ParseHeaderError" /\ ret.res.entity = Some(Name)

\* C10 as stated: a descriptor is a File if and only if it has a size that
\* is a number and an offset that is a string; otherwise a Folder when it
\* has a files object; otherwise a header-parse error naming the entity.
C10_FileIffShape ==
    ret.op = "lookahead" =>
        /\ (ret.res.ok /\ ret.res.v.type = "File") <=> FileShape
        /\ (~FileShape /\ FolderShape) => (ret.res.ok /\ ret.res.v.type = "Folder")
        /\ (~FileShape /\ ~FolderShape) => NamesEntity

\* the size of a descriptor is an integer from 0 to 2^53 - 1, its offset a
\* decimal u64
GoodSize == as_u64(Item[sSize]).some /\ ~DecGt(Item[sSize].int, MAX_SAFE_INTEGER)
GoodOffset == parse_u64(Item[sOffset].s).some

\* C10 amended: under a non-empty name a descriptor of the File shape is a
\* File when its size is an integer within the ceiling and its offset
\* parses, and a header-parse error otherwise (naming the entity when the
\* size is at fault); one not of the File shape is a Folder when it has a
\* files object, and otherwise a header-parse error naming the entity.
\* Under the empty name it is the Root when it has a files object and a
\* header-parse error otherwise.
C10_FileOnlyIfValid ==
    ret.op = "lookahead" =>
        IF Name = <<>>
        THEN IF FolderShape THEN ret.res = Ok(Home(Item[sFiles].map))
             ELSE ~ret.res.ok /\ ret.res.err = "ParseHeaderError"
        ELSE /\ (ret.res.ok /\ ret.res.v.type = "File")
                    <=> (FileShape /\ GoodSize /\ GoodOffset)
             /\ (FileShape /\ ~GoodSize) => NamesEntity
             /\ (FileShape /\ GoodSize /\ ~GoodOffset) =>
                    (~ret.res.ok /\ ret.res.err = "ParseHeaderError")
             /\ (~FileShape /\ FolderShape) =>
                    ret.res = Ok(Folder(Path_new(Name), Item[sFiles].map))
             /\ (~FileShape /\ ~FolderShape) => NamesEntity

\* a descriptor of the File shape whose size is above the ceiling has been
\* classified, and is an error
C10_Witness ==
    /\ ret.op = "lookahead" /\ Name # <<>>
    /\ FileShape /\ as_u64(Item[sSize]).some /\ ~GoodSize /\ GoodOffset
    /\ ~ret.res.ok

\* every descriptor of a tree that is an object is of the File or the
\* Folder shape
RECURSIVE Classifiable(_)
Classifiable(dir) ==
    \A n \in {m \in DOMAIN dir : IsObject(dir[m])} :
        /\ lookahead(n, dir[n].map).ok
        /\ lookahead(n, dir[n].map).v.type \in {"File", "Folder"}
        /\ lookahead(n, dir[n].map).v.type = "Folder" => Classifiable(lookahead(n, dir[n].map).v.dir)

\* the bytes of the handle's archive
Archive == fs[asar.v.src_path].data

Underrun == Len(ArgBytes) < 16 \/ Len(ArgBytes) < 16 + Field(12)
PayloadRead == from_slice(SubSeq(ArgBytes, 17, 16 + Field(12)))
NoJson == ~Underrun /\ ~PayloadRead.ok
NoObject == ~Underrun /\ PayloadRead.ok /\ ~IsObject(PayloadRead.v)
Fails(kind) == ~ret.res.ok /\ ret.res.err = kind

C13_SizeCeiling ==
    (/\ ret.op = "lookahead" /\ Name # <<>> /\ FileShape /\ GoodOffset
     /\ ~Item[sSize].neg /\ Item[sSize].frac = <<>>) =>
        /\ Item[sSize].int = MAX_SAFE_INTEGER =>
                ret.res = Ok(File(Path_new(Name), parse_u64(Item[sOffset].s).v, MAX_SAFE_INTEGER))
        /\ DecGt(Item[sSize].int, MAX_SAFE_INTEGER) => NamesEntity

\* a descriptor whose size is 2^53 - 1 has been classified as a File
C13_Witness ==
    /\ ret.op = "lookahead" /\ Name # <<>> /\ FileShape /\ GoodOffset
    /\ Item[sSize] = JNumber(FALSE, MAX_SAFE_INTEGER, <<>>)
    /\ ret.res.ok /\ ret.res.v.type = "File" /\ ret.res.v.size = MAX_SAFE_INTEGER

\* C14: whenever extract succeeds on a Root node the destination directory
\* exists afterwards, for every tree and also for a Root with no children.
C14_DestinationExists ==
    (Extracted /\ ArchiveHandle /\ Tree.type = "Home") => is_dir(fs, ret.arg)

\* the paths that exist after the last call and did not exist before it
Created == (DOMAIN fs) \ (DOMAIN ret.before)

\* C15: a handle used in the wrong direction fails with UnknownContentType
\* and produces no output: pack on an archive-opened handle creates no
\* archive, extract on a directory-opened handle creates no file or
\* directory.
C15_WrongDirectionNoOutput ==
    /\ (ret.op = "pack" /\ ArchiveHandle) => (Fails("UnknownContentType") /\ Created = {})
    /\ (ret.op = "extract" /\ DirHandle) => (Fails("UnknownContentType") /\ Created = {})

\* C20: when pack fails with UnknownContentType on an archive-opened handle
\* the filesystem is as it was: a file at the destination keeps its
\* contents and no file is created.
C20_FailedPackLeavesFs ==
    (ret.op = "pack" /\ ArchiveHandle /\ Fails("UnknownContentType")) => fs = ret.before

\* C16: on a handle opened from a directory, list succeeds and returns the
\* relative path of every folder and every file under the directory, and
\* get_paths_contain returns those of them that match.
C16_DirHandleLists ==
    /\ (ret.op = "list" /\ DirHandle) =>
            (ret.res.ok /\ Listed(ret.res.v) = Under(fs, asar.v.src_path))
    /\ (ret.op = "get_paths_contain" /\ DirHandle) =>
            {ret.res[i] : i \in DOMAIN ret.res}
                = {q \in Under(fs, asar.v.src_path) : contains(q[Len(q)], ret.arg)}

\* C17: get_paths_contain(pat) returns the paths that list enumerates
\* whose text contains pat, in the order of the enumeration.
C17_WholePathContainsPattern ==
    (ret.op = "get_paths_contain" /\ ArchiveHandle /\ list(asar.v).ok) =>
        ret.res = SelectSeq(paths_to_vec(Tree).v, LAMBDA q : contains(to_str(q), ret.arg))

\* the descriptors that are objects, in the order a walk of the tree
\* meets them: a folder before its children, the children in the order of
\* the map; kind "bad" for one of neither shape, whose children, if any,
\* are not met
RECURSIVE Visits(_, _, _)
Visits(dir, keys, prefix) ==
    IF keys = <<>> THEN <<>>
    ELSE IF ~IsObject(dir[Head(keys)]) THEN Visits(dir, Tail(keys), prefix)
    ELSE LET r == lookahead(Head(keys), dir[Head(keys)].map)
             here == join(prefix, Path_new(Head(keys)))
         IN (IF ~r.ok \/ r.v.type \notin {"File", "Folder"}
             THEN <<[path |-> here, kind |-> "bad", offset |-> <<>>, size |-> <<>>]>>
             ELSE IF r.v.type = "File"
             THEN <<[path |-> here, kind |-> "File", offset |-> r.v.offset, size |-> r.v.size]>>
             ELSE <<[path |-> here, kind |-> "Folder", offset |-> <<>>, size |-> <<>>]>>
                  \o Visits(r.v.dir, iter(r.v.dir), here))
            \o Visits(dir, Tail(keys), prefix)

Visited == Visits(Tree.dir, iter(Tree.dir), <<>>)
Source == ret.before[asar.v.src_path].data
Target(e) == join(ret.arg, e.path)

\* extracting the entry cannot succeed: its descriptor is malformed, its
\* region runs past the end of the archive, or a file stands where its
\* folder is to be
FailsAt(e) ==
    \/ e.kind = "bad"
    \/ /\ e.kind = "File" /\ e.size # <<0>>
       /\ asar.v.start + nat_of(e.offset) + nat_of(e.size) > Len(Source)
    \/ e.kind = "Folder" /\ is_file(ret.before, Target(e))
FirstFailure == Min({i \in DOMAIN Visited : FailsAt(Visited[i])})

WrittenBy(e) ==
    IF e.kind = "Folder" THEN is_dir(fs, Target(e))
    ELSE /\ is_file(fs, Target(e))
         /\ fs[Target(e)].data
              = IF e.size = <<0>> THEN <<>>
                ELSE SubSeq(Source, asar.v.start + nat_of(e.offset) + 1,
                            asar.v.start + nat_of(e.offset) + nat_of(e.size))
Untouched(e) ==
    IF Target(e) \in DOMAIN ret.before
    THEN Target(e) \in DOMAIN fs /\ fs[Target(e)] = ret.before[Target(e)]
    ELSE Target(e) \notin DOMAIN fs

\* C18: extract fails exactly when the walk reaches an entry that cannot be
\* extracted; it then returns the error, every entry the walk met before
\* that one is in the destination, and that entry and every entry after it
\* in the order of the walk is not created or changed.
C18_ExtractStopsAtFirstFailure ==
    (ret.op = "extract" /\ ArchiveHandle) =>
        IF \A i \in DOMAIN Visited : ~FailsAt(Visited[i]) THEN ret.res.ok
        ELSE /\ ~ret.res.ok
             /\ Visited[FirstFailure].kind = "bad" => Fails("ParseHeaderError")
             /\ Visited[FirstFailure].kind # "bad" => Fails("IoError")
             /\ \A j \in DOMAIN Visited :
                    /\ j < FirstFailure => WrittenBy(Visited[j])
                    /\ j >= FirstFailure => Untouched(Visited[j])

\* an extract has failed at the second of three entries: the folder before
\* it has been created, the entry after it has not
C18_Witness ==
    /\ ret.op = "extract" /\ ArchiveHandle /\ ~ret.res.ok
    /\ Len(Visited) = 3 /\ FailsAt(Visited[2]) /\ ~FailsAt(Visited[1]) /\ ~FailsAt(Visited[3])
    /\ Target(Visited[1]) \in Created
    /\ Target(Visited[3]) \notin DOMAIN fs

\* the paths that the last call created or changed
Touched == {q \in DOMAIN fs : q \notin DOMAIN ret.before \/ fs[q] # ret.before[q]}

\* C19: whatever the child names of a decoded header are, every directory
\* that extract creates and every file it writes is the destination or
\* lies below it.
C19_ExtractStaysInside ==
    (ret.op = "extract" /\ ArchiveHandle) =>
        \A q \in Touched : starts_with(q, ret.arg)

\* the entry of the tree at path q is malformed: lookahead refuses it
RECURSIVE MalformedAt(_, _)
MalformedAt(dir, q) ==
    /\ q # <<>> /\ Head(q) \in DOMAIN dir /\ IsObject(dir[Head(q)])
    /\ LET r == lookahead(Head(q), dir[Head(q)].map)
       IN IF ~r.ok THEN TRUE
          ELSE r.v.type = "Folder" /\ MalformedAt(r.v.dir, Tail(q))

\* C21: on a handle that open returned for an archive, find returns a node
\* or not-found and get_file returns bytes or None for every path, also
\* when a descriptor on the path is malformed: neither call aborts.
C21_FindAndGetFileTotal ==
    (ret.op \in {"find", "get_file"} /\ ArchiveHandle) =>
        (ret.res = None \/ ret.res.some)

\* C21 for paths that meet no malformed descriptor
C21_TotalOnWellFormedPath ==
    (ret.op \in {"find", "get_file"} /\ ArchiveHandle /\ ~MalformedAt(Tree.dir, ret.arg)) =>
        (ret.res = None \/ ret.res.some)

====
